---- MODULE Spec2Model ----
(***************************************************************************)
(* Set-of-Mark grounding script (window.DooleySOM): inject() and cleanup() *)
(* acting on a live document.  The document is a tree of elements with    *)
(* attributes, classes, a layout box and computed style; the consumer     *)
(* holds the manifests inject() returned.                                  *)
(***************************************************************************)
EXTENDS Integers, Sequences, FiniteSets, TLC

\* ------------------------------------------------------------------ bounds
\* Number of page elements below <body> (the document also has <html>, <body>).
MaxEls == 2

\* ------------------------------------------------------------- environment
NULL == "<null>"

\* window.innerWidth / window.innerHeight read by inject().
Viewport == [innerWidth |-> 40, innerHeight |-> 20]

\* Scroll offsets (window.scrollX, window.scrollY) the page can be at.
ScrollStops == { [x |-> 0, y |-> 0], [x |-> 3, y |-> 6] }

HTML == 1
BODY == 2
PageNodes == 3 .. (MaxEls + 2)
Nodes == {HTML, BODY} \cup PageNodes

BadgeClass == "dooley-som-badge"

NoAttrs ==
    [id |-> NULL, name |-> NULL, href |-> NULL, role |-> NULL,
     onclick |-> NULL, tabindex |-> NULL, for |-> NULL,
     placeholder |-> NULL, type |-> NULL, ariaLabel |-> NULL]

Shown == [display |-> "block", visibility |-> "visible", opacity |-> "1"]

El(tag, attrs, classes, box, css, innerText, value) ==
    [tagName |-> tag, attrs |-> attrs, classList |-> classes, box |-> box,
     css |-> css, innerText |-> innerText, value |-> value]

Box(l, t, w, h) == [left |-> l, top |-> t, width |-> w, height |-> h]

\* A box that every filter rule accepts at scroll offset (0, 0).
InView == Box(2, 2, 10, 10)

RECURSIVE Repeat(_, _)
\* A string of n copies of c.
Repeat(c, n) == IF n = 0 THEN "" ELSE c \o Repeat(c, n - 1)

HtmlEl == El("HTML", NoAttrs, <<>>, Box(0, 0, 40, 60), Shown, "", NULL)
BodyEl == El("BODY", NoAttrs, <<>>, Box(0, 0, 40, 60), Shown, "", NULL)
HtmlOnClick ==
    El("HTML", [NoAttrs EXCEPT !.onclick = "go()"], <<>>, Box(0, 0, 40, 60),
       Shown, "", NULL)

\* The elements a page is built from (layout in page coordinates).
KindTable ==
    << \* a large translucent button starting on screen, extending past it
      El("BUTTON", NoAttrs, <<>>, Box(2, 2, 60, 40),
         [Shown EXCEPT !.opacity = "0.5"], "Go", ""),
      \* a 5x5 input whose origin sits exactly on the viewport's far corner
      El("INPUT", [NoAttrs EXCEPT !.name = "q", !.placeholder = "Search"],
         <<>>, Box(40, 20, 5, 5), Shown, "", ""),
      \* too narrow / too flat
      El("A", [NoAttrs EXCEPT !.id = "home", !.href = "/"], <<>>,
         Box(10, 8, 4, 9), Shown, "Home", NULL),
      El("BUTTON", NoAttrs, <<"btn">>, Box(10, 8, 9, 4), Shown, "Ok", ""),
      \* hidden by style
      El("BUTTON", NoAttrs, <<"btn">>, Box(10, 8, 9, 9),
         [Shown EXCEPT !.visibility = "hidden"], "", ""),
      El("BUTTON", [NoAttrs EXCEPT !.ariaLabel = "Close"], <<>>,
         Box(10, 8, 9, 9), [Shown EXCEPT !.opacity = "0"], "x", ""),
      El("BUTTON", NoAttrs, <<"btn", "primary">>, Box(10, 8, 9, 9),
         [Shown EXCEPT !.display = "none"], "", ""),
      \* begins below the fold / right of the viewport until scrolled
      El("BUTTON", NoAttrs, <<>>, Box(10, 26, 5, 9), Shown, "More", ""),
      El("DIV", [NoAttrs EXCEPT !.tabindex = "0"], <<"card">>,
         Box(43, 9, 9, 5), Shown, "Card", NULL),
      \* a plain container
      El("DIV", NoAttrs, <<"wrap">>, Box(0, 0, 40, 30), Shown, "", NULL),
      \* a page-authored element that carries the badge class
      El("BUTTON", NoAttrs, <<BadgeClass>>, Box(6, 6, 8, 8), Shown, "9", ""),
      \* the document element and the body
      HtmlEl, BodyEl,
      \* elements in plain view that differ in what identifies and labels them
      El("BUTTON", NoAttrs, <<>>, InView, Shown, "Save", ""),
      El("BUTTON", NoAttrs, <<"btn", "primary">>, InView, Shown, "Send", ""),
      El("INPUT", [NoAttrs EXCEPT !.id = "submit-btn", !.name = "q",
                                  !.ariaLabel = "Go"],
         <<"field">>, InView, Shown, "", "go"),
      El("INPUT", [NoAttrs EXCEPT !.name = "q", !.ariaLabel = "Search"],
         <<>>, InView, Shown, "", ""),
      El("BUTTON", [NoAttrs EXCEPT !.ariaLabel = "Close"], <<"icon">>,
         InView, Shown, "", ""),
      El("DIV", [NoAttrs EXCEPT !.tabindex = "0", !.name = "card"], <<>>,
         InView, Shown, "Card", NULL),
      El("DIV", [NoAttrs EXCEPT !.tabindex = "-2"], <<"row">>,
         InView, Shown, "Row", NULL),
      El("DIV", [NoAttrs EXCEPT !.tabindex = "-1"], <<"row">>,
         InView, Shown, "Row", NULL),
      El("DIV", [NoAttrs EXCEPT !.id = "app"], <<>>, InView, Shown, "", NULL),
      El("BUTTON", NoAttrs, <<"md:flex">>, InView, Shown, "Menu", ""),
      El("TEXTAREA", NoAttrs, <<>>, InView, Shown, "", Repeat("v", 101)),
      El("A", [NoAttrs EXCEPT !.href = "/docs"], <<>>, InView, Shown,
         Repeat("t", 101), NULL),
      \* a document element that listens for clicks
      HtmlOnClick,
      \* a button whose one class name reads like a qualifier
      El("BUTTON", NoAttrs, <<"btn:nth-of-type(2)">>, InView, Shown, "Next", ""),
      El("BUTTON", NoAttrs, <<"btn">>, InView, Shown, "Next", "") >>

KindIndex(k) == CHOOSE i \in 1 .. Len(KindTable) : KindTable[i] = k

\* Kinds that vary in layout and style (listed before the document element).
PageKinds == 1 .. (KindIndex(HtmlEl) - 1)

\* Kinds that vary in identity and label (listed after the body).
PlainViewKinds == (KindIndex(BodyEl) + 1) .. (KindIndex(HtmlOnClick) - 1)

\* -------------------------------------------------------------------- state
VARIABLES
    parent,      \* parent[n]: parent node of element n (0 above <html>)
    kindOf,      \* kindOf[n]: index in KindTable of element n's description
    attached,    \* elements currently in the document
    scroll,      \* [x, y]: window.scrollX / window.scrollY
    badgeNodes,  \* the <div> badges appended to <body>, in order
    heap,        \* heap[r]: the array object at reference r
    held,        \* manifests the caller received: <<[ref, copy, marked, at]>>, newest last
    lastOp,      \* the operation of the script that ran last
    args,        \* arguments of a helper called on its own (NULL when none);
                 \* for the mission pages, what is outside the component:
                 \* requests in flight, open event sources, pending timers
    ret,         \* what that helper returned (NULL before it ran); for the
                 \* dashboard, the last action event delivered
    frame        \* locals of an inject() call in progress (NULL when none);
                 \* for the mission pages, the component's state and refs

vars == <<parent, kindOf, attached, scroll, badgeNodes, heap, held, lastOp,
          args, ret, frame>>

\* The document, the caller's manifests and the call history.
pageVars == <<parent, kindOf, attached, scroll, badgeNodes, heap, held, lastOp>>

\* The tag, attributes, classes, layout and style of element n.
Kind(n) == KindTable[kindOf[n]]

\* ---------------------------------------------------------------- the DOM
Min(a, b) == IF a < b THEN a ELSE b

HasClass(k, c) == \E i \in 1 .. Len(k.classList) : k.classList[i] = c

\* Element.getAttribute: null when the attribute is absent.
GetAttribute(k, a) == k.attrs[a]
HasAttribute(k, a) == k.attrs[a] # NULL

\* JavaScript truthiness of a string-or-null value.
Truthy(v) == v # NULL /\ v # ""

\* String.prototype.toLowerCase on the tag names in use.
ToLowerCase(t) ==
    CASE t = "HTML" -> "html" [] t = "BODY" -> "body" [] t = "BUTTON" -> "button"
      [] t = "INPUT" -> "input" [] t = "A" -> "a" [] t = "DIV" -> "div"
      [] t = "SELECT" -> "select" [] t = "TEXTAREA" -> "textarea"
      [] t = "LABEL" -> "label" [] t = "SPAN" -> "span" [] OTHER -> t

\* The reflected .id, .name and .type properties (undefined reads as NULL).
IdProp(k) == IF HasAttribute(k, "id") THEN GetAttribute(k, "id") ELSE ""
NameProp(k) ==
    IF k.tagName \in {"BUTTON", "INPUT", "SELECT", "TEXTAREA", "A"}
    THEN IF HasAttribute(k, "name") THEN GetAttribute(k, "name") ELSE ""
    ELSE NULL
TypeProp(k) ==
    CASE k.tagName = "BUTTON" ->
           IF GetAttribute(k, "type") \in {"button", "reset"}
           THEN GetAttribute(k, "type") ELSE "submit"
      [] k.tagName = "INPUT" ->
           IF HasAttribute(k, "type") THEN GetAttribute(k, "type") ELSE "text"
      [] k.tagName = "SELECT" -> "select-one"
      [] k.tagName = "TEXTAREA" -> "textarea"
      [] k.tagName = "A" ->
           IF HasAttribute(k, "type") THEN GetAttribute(k, "type") ELSE ""
      [] OTHER -> NULL

\* Children of p that are in the document `att`, in sibling order.
ChildSet(p, att) == { n \in att : parent[n] = p }

RECURSIVE Depth(_)
\* The number of elements from the document element down to n.
Depth(n) == IF n \notin Nodes THEN 0 ELSE Depth(parent[n]) + 1

RECURSIVE PathKey(_)
\* The elements from the document element down to n, read as the digits of
\* a number in base MaxEls + 3.
PathKey(n) == IF n \notin Nodes THEN 0 ELSE PathKey(parent[n]) * (MaxEls + 3) + n

\* The same digits left-aligned: an ancestor sorts before its descendants
\* and an earlier child's subtree before a later child's.
OrderKey(n) == PathKey(n) * (MaxEls + 3) ^ (MaxEls + 2 - Depth(n))

RECURSIVE Subtree(_)
\* n and all its descendants.
Subtree(n) == {n} \cup UNION { Subtree(c) : c \in { m \in Nodes : parent[m] = n } }

\* The second components of a set of <<key, element>> pairs, by ascending key.
ByKey(pairs) ==
    [i \in 1 .. Cardinality(pairs) |->
        (CHOOSE p \in pairs :
            Cardinality({ q \in pairs : q[1] < p[1] }) = i - 1)[2]]

\* Document (pre-order) sequence of the subtree rooted at n.
PreOrder(n, att) == ByKey({ << OrderKey(m), m >> : m \in Subtree(n) \cap att })

\* document.querySelectorAll('.dooley-som-badge') among the page's own elements.
BadgeClassElements(att) == { n \in att : HasClass(Kind(n), BadgeClass) }

\* forEach(el => el.remove()): the elements left in the document.
RemoveAll(targets, att) == att \ UNION { Subtree(n) : n \in targets }

\* The badge <div>s of `nodes` that a '.dooley-som-badge' query returns.
BadgeDivs(nodes) == SelectSeq(nodes, LAMBDA b : b.className = BadgeClass)

\* ------------------------------------------------------------ DOM scanner
\* interactiveSelectors[i] applied to one element.
MatchesSelector(k, i) ==
    CASE i = 1 -> k.tagName = "A" /\ HasAttribute(k, "href")
      [] i = 2 -> k.tagName = "BUTTON"
      [] i = 3 -> k.tagName = "INPUT"
      [] i = 4 -> k.tagName = "SELECT"
      [] i = 5 -> k.tagName = "TEXTAREA"
      [] i = 6 -> GetAttribute(k, "role") = "button"
      [] i = 7 -> GetAttribute(k, "role") = "link"
      [] i = 8 -> GetAttribute(k, "role") = "menuitem"
      [] i = 9 -> GetAttribute(k, "role") = "checkbox"
      [] i = 10 -> GetAttribute(k, "role") = "switch"
      [] i = 11 -> HasAttribute(k, "onclick")
      [] i = 12 -> HasAttribute(k, "tabindex") /\ GetAttribute(k, "tabindex") # "-1"
      [] i = 13 -> k.tagName = "LABEL" /\ HasAttribute(k, "for")
      [] OTHER -> FALSE

SelectorIndexes == 1 .. 13

\* The joined selector list: an element matches if any selector does.
MatchesInteractive(k) == \E i \in SelectorIndexes : MatchesSelector(k, i)

RECURSIVE QueryEachSelector(_, _)
\* Variant scan: one query per selector, results concatenated.
QueryEachSelector(att, i) ==
    IF i > 13 THEN <<>>
    ELSE SelectSeq(PreOrder(HTML, att),
                   LAMBDA n : MatchesSelector(Kind(n), i)
                              /\ \A j \in 1 .. (i - 1) : ~MatchesSelector(Kind(n), j))
         \o QueryEachSelector(att, i + 1)

QueryBySelectorGroups(att) == QueryEachSelector(att, 1)

\* document.querySelectorAll(interactiveSelectors.join(',')): document order.
QuerySelectorAll(att) ==
    SelectSeq(PreOrder(HTML, att), LAMBDA n : MatchesInteractive(Kind(n)))

\* ------------------------------------------------------- geometry & style
\* el.getBoundingClientRect(): viewport-relative; an element that generates
\* no box (display: none) measures as all zeros.
GetBoundingClientRect(k, sc) ==
    IF k.css.display = "none"
    THEN [x |-> 0, y |-> 0, left |-> 0, top |-> 0, width |-> 0, height |-> 0]
    ELSE [x |-> k.box.left - sc.x, y |-> k.box.top - sc.y,
          left |-> k.box.left - sc.x, top |-> k.box.top - sc.y,
          width |-> k.box.width, height |-> k.box.height]

GetComputedStyle(k) == k.css

TooSmallStrict(rect) == rect.width <= 5 \/ rect.height <= 5

\* rect.width < 5 || rect.height < 5
TooSmall(rect) == rect.width < 5 \/ rect.height < 5

\* display none, visibility hidden or opacity '0'
Hidden(style) ==
    style.display = "none" \/ style.visibility = "hidden" \/ style.opacity = "0"

OffScreenAnyEdge(rect, vw, vh) ==
    \/ rect.top < 0 \/ rect.left < 0
    \/ rect.top + rect.height > vh \/ rect.left + rect.width > vw

OffScreenInclusive(rect, vw, vh) ==
    rect.top < 0 \/ rect.left < 0 \/ rect.top >= vh \/ rect.left >= vw

\* rect.top < 0 || rect.left < 0, then rect.top > vh || rect.left > vw
OffScreen(rect, vw, vh) ==
    rect.top < 0 \/ rect.left < 0 \/ rect.top > vh \/ rect.left > vw

\* -------------------------------------------------------- region classifier
\* getRegion, in exact arithmetic: centerX = x + w/2 compared with vw * 0.2
\* and vw * 0.8, centerY = y + h/2 with vh * 0.15 and vh * 0.85.  For whole
\* pixel boxes and viewports the double products compare with the centers as
\* the exact ones do.
getRegionHorizontalFirst(x, y, w, h, vw, vh) ==
    LET cx2 == 2 * x + w
        cy2 == 2 * y + h
        vZone == IF 10 * cy2 < 3 * vh THEN "top"
                 ELSE IF 10 * cy2 > 17 * vh THEN "bottom" ELSE "middle"
        hZone == IF 5 * cx2 < 2 * vw THEN "left"
                 ELSE IF 5 * cx2 > 8 * vw THEN "right" ELSE "center"
    IN IF vZone = "top"
       THEN IF hZone = "left" THEN "top-left-header"
            ELSE IF hZone = "right" THEN "top-right-header"
            ELSE "top-header"
       ELSE IF hZone = "left" THEN "left-sidebar"
       ELSE IF hZone = "right" THEN "right-sidebar"
       ELSE IF vZone = "bottom" THEN "bottom-footer"
       ELSE "main-content"

getRegionInclusive(x, y, w, h, vw, vh) ==
    LET cx2 == 2 * x + w
        cy2 == 2 * y + h
        vZone == IF 10 * cy2 <= 3 * vh THEN "top"
                 ELSE IF 10 * cy2 >= 17 * vh THEN "bottom" ELSE "middle"
        hZone == IF 5 * cx2 <= 2 * vw THEN "left"
                 ELSE IF 5 * cx2 >= 8 * vw THEN "right" ELSE "center"
    IN IF vZone = "top"
       THEN IF hZone = "left" THEN "top-left-header"
            ELSE IF hZone = "right" THEN "top-right-header"
            ELSE "top-header"
       ELSE IF vZone = "bottom" THEN "bottom-footer"
       ELSE IF hZone = "left" THEN "left-sidebar"
       ELSE IF hZone = "right" THEN "right-sidebar"
       ELSE "main-content"

getRegion(x, y, w, h, vw, vh) ==
    LET cx2 == 2 * x + w
        cy2 == 2 * y + h
        vZone == IF 10 * cy2 < 3 * vh THEN "top"
                 ELSE IF 10 * cy2 > 17 * vh THEN "bottom" ELSE "middle"
        hZone == IF 5 * cx2 < 2 * vw THEN "left"
                 ELSE IF 5 * cx2 > 8 * vw THEN "right" ELSE "center"
    IN IF vZone = "top"
       THEN IF hZone = "left" THEN "top-left-header"
            ELSE IF hZone = "right" THEN "top-right-header"
            ELSE "top-header"
       ELSE IF vZone = "bottom" THEN "bottom-footer"
       ELSE IF hZone = "left" THEN "left-sidebar"
       ELSE IF hZone = "right" THEN "right-sidebar"
       ELSE "main-content"

\* ------------------------------------------------------ selector synthesizer
RECURSIVE Join(_, _)
\* Array.prototype.join
Join(parts, sep) ==
    IF parts = <<>> THEN ""
    ELSE IF Len(parts) = 1 THEN parts[1]
    ELSE parts[1] \o sep \o Join(Tail(parts), sep)

\* 1 + the number of previous element siblings with the same tag name.
NthOfType(n, att) ==
    1 + Cardinality({ m \in ChildSet(parent[n], att) :
                        m < n /\ Kind(m).tagName = Kind(n).tagName })

FragmentAlwaysNth(n, att) ==
    LET k == Kind(n)
        tag == ToLowerCase(k.tagName)
        cls == IF Len(k.classList) > 0 THEN "." \o Join(k.classList, ".") ELSE ""
        nth == NthOfType(n, att)
    IN tag \o cls \o ":nth-of-type(" \o ToString(nth) \o ")"

FragmentFromThird(n, att) ==
    LET k == Kind(n)
        tag == ToLowerCase(k.tagName)
        cls == IF Len(k.classList) > 0 THEN "." \o Join(k.classList, ".") ELSE ""
        nth == NthOfType(n, att)
    IN tag \o cls \o (IF nth > 2 THEN ":nth-of-type(" \o ToString(nth) \o ")" ELSE "")

FragmentCountsAllSiblings(n, att) ==
    LET k == Kind(n)
        tag == ToLowerCase(k.tagName)
        cls == IF Len(k.classList) > 0 THEN "." \o Join(k.classList, ".") ELSE ""
        nth == 1 + Cardinality({ m \in ChildSet(parent[n], att) : m < n })
    IN tag \o cls \o (IF nth > 1 THEN ":nth-of-type(" \o ToString(nth) \o ")" ELSE "")

\* One level of the structural path: tag, classes, :nth-of-type.
Fragment(n, att) ==
    LET k == Kind(n)
        tag == ToLowerCase(k.tagName)
        cls == IF Len(k.classList) > 0 THEN "." \o Join(k.classList, ".") ELSE ""
        nth == NthOfType(n, att)
    IN tag \o cls \o (IF nth > 1 THEN ":nth-of-type(" \o ToString(nth) \o ")" ELSE "")

RECURSIVE PathPastId(_, _)
PathPastId(n, att) ==
    IF n \notin Nodes THEN <<>>
    ELSE IF Truthy(IdProp(Kind(n)))
    THEN PathPastId(parent[n], att) \o << "#" \o IdProp(Kind(n)) >>
    ELSE PathPastId(parent[n], att) \o << Fragment(n, att) >>

RECURSIVE PathLeafFirst(_, _)
PathLeafFirst(n, att) ==
    IF n \notin Nodes THEN <<>>
    ELSE IF Truthy(IdProp(Kind(n))) THEN << "#" \o IdProp(Kind(n)) >>
    ELSE << Fragment(n, att) >> \o PathLeafFirst(parent[n], att)

RECURSIVE Path(_, _)
\* The while loop: fragments from the stopping ancestor down to the element.
Path(n, att) ==
    IF n \notin Nodes THEN <<>>
    ELSE IF Truthy(IdProp(Kind(n))) THEN << "#" \o IdProp(Kind(n)) >>
    ELSE Path(parent[n], att) \o << Fragment(n, att) >>

getUniqueSelector(n, att) ==
    LET k == Kind(n)
    IN IF Truthy(IdProp(k)) THEN "#" \o IdProp(k)
       ELSE IF Truthy(NameProp(k)) THEN "[name=\"" \o NameProp(k) \o "\"]"
       ELSE IF Truthy(GetAttribute(k, "ariaLabel"))
            THEN "[aria-label=\"" \o GetAttribute(k, "ariaLabel") \o "\"]"
       ELSE Join(Path(n, att), " > ")

\* --------------------------------------------------------- manifest builder
MaxLabel == 100

\* String.prototype.slice(0, n)
Slice(str, n) == SubSeq(str, 1, Min(n, Len(str)))

\* el.innerText?.slice(0, 100) || el.value || placeholder || aria-label || ''
LabelOf(k) ==
    IF k.innerText # NULL /\ Slice(k.innerText, MaxLabel) # ""
    THEN Slice(k.innerText, MaxLabel)
    ELSE IF Truthy(k.value) THEN k.value
    ELSE IF Truthy(GetAttribute(k, "placeholder")) THEN GetAttribute(k, "placeholder")
    ELSE IF Truthy(GetAttribute(k, "ariaLabel")) THEN GetAttribute(k, "ariaLabel")
    ELSE ""

BadgeTextZeroBased(badgeId) == ToString(badgeId - 1)

\* badge.textContent = badgeId
BadgeText(badgeId) == ToString(badgeId)

\* The badge <div> created for an element measured as rect.
CreateBadge(badgeId, rect, sc) ==
    [className |-> BadgeClass, textContent |-> BadgeText(badgeId),
     left |-> rect.left + sc.x, top |-> rect.top + sc.y]

\* The object pushed onto the manifest.
Entry(n, badgeId, rect, att, vw, vh) ==
    LET k == Kind(n)
    IN [id |-> badgeId,
        selector |-> getUniqueSelector(n, att),
        text |-> LabelOf(k),
        tagName |-> ToLowerCase(k.tagName),
        type |-> IF Truthy(TypeProp(k)) THEN TypeProp(k) ELSE "",
        region |-> getRegion(rect.x, rect.y, rect.width, rect.height, vw, vh),
        rect |-> [x |-> rect.x, y |-> rect.y,
                  width |-> rect.width, height |-> rect.height]]

SkipConsumesId(acc) == [acc EXCEPT !.badgeId = @ + 1]

SkipLeavesBadge(acc) ==
    [acc EXCEPT !.nodes = Append(@, [className |-> BadgeClass,
                                     textContent |-> ToString(acc.badgeId),
                                     left |-> 0, top |-> 0])]

\* An early `return` from the forEach callback: nothing is recorded.
Skip(acc) == acc

\* The forEach callback for one candidate; acc carries the manifest so far,
\* the badge nodes appended so far, the elements marked so far and badgeId.
Visit(n, acc, att, sc, vw, vh) ==
    LET rect == GetBoundingClientRect(Kind(n), sc)
        style == GetComputedStyle(Kind(n))
    IN IF TooSmall(rect) THEN Skip(acc)
       ELSE IF Hidden(style) THEN Skip(acc)
       ELSE IF OffScreen(rect, vw, vh) THEN Skip(acc)
       \* document.body is null: document.body.appendChild throws
       ELSE IF BODY \notin att THEN [acc EXCEPT !.thrown = "TypeError"]
       ELSE [badges |-> Append(acc.badges, Entry(n, acc.badgeId, rect, att, vw, vh)),
             nodes |-> Append(acc.nodes, CreateBadge(acc.badgeId, rect, sc)),
             marked |-> Append(acc.marked, n),
             badgeId |-> acc.badgeId + 1,
             thrown |-> acc.thrown]

RECURSIVE ForEach(_, _, _, _, _, _)
\* An exception leaving the callback ends the loop: nothing catches it.
ForEach(elements, acc, att, sc, vw, vh) ==
    IF elements = <<>> \/ acc.thrown # NULL THEN acc
    ELSE ForEach(Tail(elements), Visit(Head(elements), acc, att, sc, vw, vh),
                 att, sc, vw, vh)

KeepBadges(nodes) == nodes

\* querySelectorAll('.dooley-som-badge').forEach(el => el.remove()) on the
\* badge <div>s under <body>.
RemoveBadges(nodes) == SelectSeq(nodes, LAMBDA b : b.className # BadgeClass)

BadgeIdAfterLastScan == Len(badgeNodes) + 1

\* let badgeId = 1
InitialBadgeId == 1

\* The scan proper, run on the document left after the stale badges went.
Scan(att, nodes, sc) ==
    ForEach(QuerySelectorAll(att),
            [badges |-> <<>>, nodes |-> nodes, marked |-> <<>>,
             badgeId |-> InitialBadgeId, thrown |-> NULL],
            att, sc, Viewport.innerWidth, Viewport.innerHeight)

\* ------------------------------------------------------------------ caller
Refs == {"r1", "r2"}

AllocShared(live) == "r1"

\* const badges = []: a fresh array, distinct from every array still in use.
Alloc(live) == CHOOSE r \in Refs \ live : TRUE

LiveRefs(h) == { h[i].ref : i \in 1 .. Len(h) }

\* The caller keeps the newest manifest and the one before it: when a third
\* arrives it lets go of the oldest.
Retained(h) == IF Len(h) < 2 THEN h ELSE <<h[2]>>
Keep(h, item) == Append(Retained(h), item)

\* ------------------------------------------------------------ specification
\* Trees over the page elements: every page element hangs below <body>.
Trees ==
    { p \in [Nodes -> 0 .. (MaxEls + 2)] :
        /\ p[HTML] = 0
        /\ p[BODY] = HTML
        /\ \A n \in PageNodes : p[n] >= BODY /\ p[n] < n }

Init ==
    /\ parent \in Trees
    /\ \E f \in [PageNodes -> PageKinds] :
          kindOf = [n \in Nodes |->
                      IF n = HTML THEN KindIndex(HtmlEl)
                      ELSE IF n = BODY THEN KindIndex(BodyEl) ELSE f[n]]
    /\ attached = Nodes
    /\ scroll = [x |-> 0, y |-> 0]
    /\ badgeNodes = <<>>
    /\ heap = [r \in Refs |-> <<>>]
    /\ held = <<>>
    /\ lastOp = "none"
    /\ args = NULL
    /\ ret = NULL
    /\ frame = NULL

\* window.DooleySOM.inject(): the caller receives the manifest, or the
\* exception that left the loop (and then no manifest).
Inject ==
    \E att \in { RemoveAll(BadgeClassElements(attached), attached) } :
    \E res \in { Scan(att, RemoveBadges(badgeNodes), scroll) } :
    \E ref \in { Alloc(LiveRefs(Retained(held))) } :
    \E h \in { Keep(held, [ref |-> ref, copy |-> res.badges,
                            marked |-> res.marked, at |-> scroll]) } :
       /\ attached' = att
       /\ badgeNodes' = res.nodes
       /\ IF res.thrown # NULL
          THEN /\ lastOp' = "inject threw"
               /\ UNCHANGED <<heap, held>>
          ELSE /\ heap' = [r \in Refs |->
                             IF r = ref THEN res.badges
                             ELSE IF r \in LiveRefs(h) THEN heap[r] ELSE <<>>]
               /\ held' = h
               /\ lastOp' = "inject"
       /\ UNCHANGED <<parent, kindOf, scroll, args, ret, frame>>

CleanupFirstOnly(nodes) == IF nodes = <<>> THEN nodes ELSE Tail(nodes)

\* The badge <div>s left by cleanup()'s querySelectorAll(...).forEach(remove).
CleanupBadges(nodes) == RemoveBadges(nodes)

\* window.DooleySOM.cleanup()
Cleanup ==
    /\ attached' = RemoveAll(BadgeClassElements(attached), attached)
    /\ badgeNodes' = CleanupBadges(badgeNodes)
    /\ lastOp' = "cleanup"
    /\ UNCHANGED <<parent, kindOf, scroll, heap, held, args, ret, frame>>

\* The user or the driver scrolls the page between two calls.
Scroll ==
    /\ \E s \in ScrollStops \ {scroll} : scroll' = s
    /\ UNCHANGED <<parent, kindOf, attached, badgeNodes, heap, held, lastOp,
                   args, ret, frame>>

Next == Inject \/ Cleanup \/ Scroll

Spec == Init /\ [][Next]_vars

\* ------------------------------------------------------------------- claims
\* The nodes of class dooley-som-badge in the document.
BadgeNodeCount ==
    Cardinality(BadgeClassElements(attached)) + Len(BadgeDivs(badgeNodes))

\* CLEAN: no badges rendered; ANNOTATED: badges rendered.
StateOf == IF BadgeNodeCount = 0 THEN "CLEAN" ELSE "ANNOTATED"

\* The newest manifest the caller received, as returned.
Last == held[Len(held)]
Returned == held # <<>>

\* Position of element n in document order.
DocPos(n) ==
    LET order == PreOrder(HTML, Nodes)
    IN CHOOSE i \in 1 .. Len(order) : order[i] = n

MarkedSet(e) == { e.marked[i] : i \in 1 .. Len(e.marked) }

\* The candidates of a scan: the interactive elements left in the document.
Candidates == { n \in attached : MatchesInteractive(Kind(n)) }

\* C1: right after inject() returned a manifest of n entries, the document
\* holds exactly n nodes of class dooley-som-badge, and the i-th of them
\* shows the id of the i-th manifest entry, the labels being "1" .. "n".
C1_BadgesMatchManifest ==
    lastOp = "inject" =>
        LET m == Last.copy
            divs == BadgeDivs(badgeNodes)
        IN /\ BadgeClassElements(attached) = {}
           /\ Len(divs) = Len(m)
           /\ \A i \in 1 .. Len(m) :
                 /\ divs[i].textContent = ToString(m[i].id)
                 /\ divs[i].textContent = ToString(i)

C1_Witness ==
    /\ lastOp = "inject"
    /\ Len(held) = 2
    /\ held[1].copy # held[2].copy
    /\ Len(Last.copy) >= 2
    /\ Len(BadgeDivs(badgeNodes)) = Len(Last.copy)

\* C2: in every manifest inject() returned the ids are 1, 2, ..., n in array
\* order, although rejected candidates were visited in between.
C2_IdsSequential ==
    \A h \in 1 .. Len(held) :
        \A i \in 1 .. Len(held[h].copy) : held[h].copy[i].id = i

C2_Witness ==
    /\ Returned
    /\ Len(Last.copy) >= 1
    /\ \E c \in Candidates \ MarkedSet(Last) :
          \E n \in MarkedSet(Last) : DocPos(c) < DocPos(n)

\* C3: manifest order is document order: the element of entry i precedes the
\* element of entry j in the pre-order traversal whenever i < j.
C3_DocumentOrder ==
    \A order \in { PreOrder(HTML, Nodes) } :
    \A pos \in { [n \in Nodes |-> CHOOSE i \in 1 .. Len(order) : order[i] = n] } :
    \A h \in 1 .. Len(held) :
        \A i, j \in 1 .. Len(held[h].marked) :
            i < j => pos[held[h].marked[i]] < pos[held[h].marked[j]]

C3_Witness ==
    /\ Returned
    /\ Len(Last.marked) >= 2
    /\ Kind(Last.marked[1]).tagName = "INPUT"
    /\ Kind(Last.marked[2]).tagName = "BUTTON"

\* C4: after a sequence of calls ending in inject() the number of rendered
\* badges is the length of the manifest that inject() returned.
C4_NoAccumulation ==
    lastOp = "inject" => BadgeNodeCount = Len(Last.copy)

C4_Witness ==
    /\ lastOp = "inject"
    /\ Len(held) = 2
    /\ Len(held[1].copy) > Len(held[2].copy)
    /\ Len(held[2].copy) > 0
    /\ BadgeNodeCount = Len(held[2].copy)

\* C5: after cleanup() no node of class dooley-som-badge is left, whatever
\* came before; called when there is none, it leaves the document as it was.
C5_CleanupRemovesAll ==
    [][Cleanup =>
         /\ BadgeNodeCount' = 0
         /\ (BadgeNodeCount = 0 => UNCHANGED <<attached, badgeNodes, parent, kindOf>>)]_vars

C5_Witness ==
    /\ lastOp = "cleanup"
    /\ Returned
    /\ Len(Last.copy) >= 2
    /\ BadgeNodeCount = 0

\* C6 as stated: inject() always leaves the subsystem ANNOTATED (badges
\* rendered).
C6_AlwaysAnnotated == lastOp = "inject" => StateOf = "ANNOTATED"

\* C6 amended: after inject() badges are rendered exactly when the returned
\* manifest is non-empty; a scan no candidate survives leaves the page CLEAN.
C6_AnnotatedIffNonEmpty ==
    lastOp = "inject" => (StateOf = "ANNOTATED" <=> Len(Last.copy) > 0)

C6_Witness ==
    /\ lastOp = "inject"
    /\ Len(held) = 2
    /\ held[1].copy # <<>>
    /\ Last.copy = <<>>
    /\ Candidates # {}
    /\ StateOf = "CLEAN"

\* C7: a manifest the caller holds keeps the value it was returned with,
\* through every later inject() and cleanup().
C7_ManifestIsSnapshot ==
    \A h \in 1 .. Len(held) : heap[held[h].ref] = held[h].copy

C7_Witness ==
    /\ Len(held) = 2
    /\ held[1].copy # <<>>
    /\ held[1].copy # held[2].copy
    /\ heap[held[1].ref] = held[1].copy
    /\ lastOp = "cleanup"

\* C8: two scans of the page in the same condition (same elements, layout,
\* viewport and scroll offset) return manifests of equal length with the
\* same selector and region entry by entry, ids running 1..n in both.
C8_RescanIdentical ==
    (Len(held) = 2 /\ held[1].at = held[2].at) =>
        LET a == held[1].copy
            b == held[2].copy
        IN /\ Len(a) = Len(b)
           /\ \A i \in 1 .. Len(a) :
                 /\ a[i].selector = b[i].selector
                 /\ a[i].region = b[i].region
                 /\ a[i].id = i
                 /\ b[i].id = i

C8_Witness ==
    /\ Len(held) = 2
    /\ held[1].at = held[2].at
    /\ Len(held[2].copy) >= 2
    /\ held[1].copy[2].selector = held[2].copy[2].selector
    /\ lastOp = "inject"

\* The rejection predicates as the filter's contract lists them, for element
\* n measured at scroll offset sc.
ClaimedRejected(n, sc) ==
    LET k == Kind(n)
        shown == k.css.display # "none"
        w == IF shown THEN k.box.width ELSE 0
        h == IF shown THEN k.box.height ELSE 0
        top == IF shown THEN k.box.top - sc.y ELSE 0
        left == IF shown THEN k.box.left - sc.x ELSE 0
    IN \/ w < 5 \/ h < 5
       \/ k.css.display = "none" \/ k.css.visibility = "hidden" \/ k.css.opacity = "0"
       \/ top < 0 \/ left < 0
       \/ top > Viewport.innerHeight \/ left > Viewport.innerWidth

\* C9: a candidate is in the manifest if and only if none of the rejection
\* predicates (size, style, origin before or past the viewport) holds.
C9_FilterExact ==
    \A cands \in { Candidates } :
    \A h \in 1 .. Len(held) :
        \A n \in cands :
            (n \in MarkedSet(held[h])) <=> ~ClaimedRejected(n, held[h].at)

C9_Witness ==
    /\ Returned
    /\ \E n \in MarkedSet(Last) :
          Kind(n).box.top - Last.at.y = Viewport.innerHeight
    /\ \E n \in Candidates \ MarkedSet(Last) : Kind(n).css.opacity = "0"

\* C10: the size rule's boundary is 5: a candidate no other rule rejects is
\* in the manifest when width >= 5 and height >= 5, and a candidate with
\* width < 5 or height < 5 is never in it.
C10_SizeBoundary ==
    \A cands \in { Candidates } :
    \A h \in 1 .. Len(held) :
        \A n \in cands :
        \A rect \in { GetBoundingClientRect(Kind(n), held[h].at) } :
            LET otherwise ==
                    /\ ~Hidden(GetComputedStyle(Kind(n)))
                    /\ ~OffScreen(rect, Viewport.innerWidth, Viewport.innerHeight)
            IN /\ (otherwise /\ rect.width >= 5 /\ rect.height >= 5)
                     => n \in MarkedSet(held[h])
               /\ (rect.width < 5 \/ rect.height < 5)
                     => n \notin MarkedSet(held[h])

C10_Witness ==
    /\ Returned
    /\ \E n \in MarkedSet(Last) : Kind(n).box.width = 5 /\ Kind(n).box.height > 5
    /\ \E n \in Candidates \ MarkedSet(Last) :
          /\ Kind(n).css = Shown
          /\ Kind(n).box.width = 4
          /\ Kind(n).box.height >= 5

\* C11: only the origin of the box is tested against the viewport: a
\* candidate that is large enough, not hidden, and whose top/left lie inside
\* the viewport is in the manifest even when its bottom or right edge lies
\* beyond the viewport's bottom or right edge.
C11_OriginOnly ==
    \A cands \in { Candidates } :
    \A h \in 1 .. Len(held) :
        \A n \in cands :
        \A rect \in { GetBoundingClientRect(Kind(n), held[h].at) } :
            ( /\ rect.width >= 5 /\ rect.height >= 5
              /\ ~Hidden(GetComputedStyle(Kind(n)))
              /\ rect.top >= 0 /\ rect.top <= Viewport.innerHeight
              /\ rect.left >= 0 /\ rect.left <= Viewport.innerWidth
              /\ \/ rect.top + rect.height > Viewport.innerHeight
                 \/ rect.left + rect.width > Viewport.innerWidth )
            => n \in MarkedSet(held[h])

C11_Witness ==
    /\ Returned
    /\ \E n \in MarkedSet(Last) :
          /\ Kind(n).box.top - Last.at.y >= 0
          /\ Kind(n).box.top - Last.at.y < Viewport.innerHeight
          /\ Kind(n).box.top - Last.at.y + Kind(n).box.height > Viewport.innerHeight
          /\ Kind(n).box.left - Last.at.x + Kind(n).box.width > Viewport.innerWidth

\* ------------------------------------------------- region classifier alone
\* Largest pixel coordinate and size of the boxes classified.
MaxPx == 6

\* Viewports (window.innerWidth x window.innerHeight) the boxes are seen in.
ViewportSizes ==
    { [innerWidth |-> 10, innerHeight |-> 10],
      [innerWidth |-> 5, innerHeight |-> 10],
      [innerWidth |-> 10, innerHeight |-> 7],
      [innerWidth |-> 3, innerHeight |-> 4] }

InitRegion ==
    /\ parent = [n \in Nodes |-> IF n = HTML THEN 0 ELSE IF n = BODY THEN HTML ELSE BODY]
    /\ kindOf = [n \in Nodes |->
                   IF n = HTML THEN KindIndex(HtmlEl) ELSE KindIndex(BodyEl)]
    /\ attached = {HTML, BODY}
    /\ scroll = [x |-> 0, y |-> 0]
    /\ badgeNodes = <<>>
    /\ heap = [r \in Refs |-> <<>>]
    /\ held = <<>>
    /\ lastOp = "none"
    /\ \E x, y, w, h \in 0 .. MaxPx : \E vp \in ViewportSizes :
          args = [x |-> x, y |-> y, width |-> w, height |-> h,
                  vw |-> vp.innerWidth, vh |-> vp.innerHeight]
    /\ ret = NULL
    /\ frame = NULL

\* getRegion(rect.x, rect.y, rect.width, rect.height) called once.
CallGetRegion ==
    /\ ret = NULL
    /\ ret' = getRegion(args.x, args.y, args.width, args.height, args.vw, args.vh)
    /\ UNCHANGED <<pageVars, args, frame>>

NextRegion == CallGetRegion

SpecRegion == InitRegion /\ [][NextRegion]_vars

\* The zones of the reference table, from the center (cx2/2, cy2/2) of the box.
RefVertical(cy2, vh) ==
    IF 100 * cy2 < 2 * 15 * vh THEN "top"
    ELSE IF 100 * cy2 > 2 * 85 * vh THEN "bottom" ELSE "middle"

RefHorizontal(cx2, vw) ==
    IF 100 * cx2 < 2 * 20 * vw THEN "left"
    ELSE IF 100 * cx2 > 2 * 80 * vw THEN "right" ELSE "center"

RefRegion(v, hz) ==
    CASE v = "top" /\ hz = "left" -> "top-left-header"
      [] v = "top" /\ hz = "right" -> "top-right-header"
      [] v = "top" /\ hz = "center" -> "top-header"
      [] v = "bottom" -> "bottom-footer"
      [] v = "middle" /\ hz = "left" -> "left-sidebar"
      [] v = "middle" /\ hz = "right" -> "right-sidebar"
      [] v = "middle" /\ hz = "center" -> "main-content"

RegionNames ==
    { "top-left-header", "top-right-header", "top-header", "bottom-footer",
      "left-sidebar", "right-sidebar", "main-content" }

\* C12: for every box and viewport the region is the reference table applied
\* to the box's center (top 15% / bottom 15% of the height, left 20% / right
\* 20% of the width, vertical first, bottom collapsing the horizontal zone),
\* and it is one of the seven names.
C12_RegionTable ==
    ret # NULL =>
        /\ ret = RefRegion(RefVertical(2 * args.y + args.height, args.vh),
                           RefHorizontal(2 * args.x + args.width, args.vw))
        /\ ret \in RegionNames

C12_Witness ==
    /\ ret = "bottom-footer"
    /\ RefVertical(2 * args.y + args.height, args.vh) = "bottom"
    /\ RefHorizontal(2 * args.x + args.width, args.vw) = "left"

\* --------------------------------------------- scans of pages in plain view
InitPlain ==
    /\ parent \in Trees
    /\ \E f \in [PageNodes -> PlainViewKinds] :
          kindOf = [n \in Nodes |->
                      IF n = HTML THEN KindIndex(HtmlEl)
                      ELSE IF n = BODY THEN KindIndex(BodyEl) ELSE f[n]]
    /\ attached = Nodes
    /\ scroll = [x |-> 0, y |-> 0]
    /\ badgeNodes = <<>>
    /\ heap = [r \in Refs |-> <<>>]
    /\ held = <<>>
    /\ lastOp = "none"
    /\ args = NULL
    /\ ret = NULL
    /\ frame = NULL

\* The driver's first inject() on the page.
FirstInject == lastOp = "none" /\ Inject

NextPlain == FirstInject

SpecPlain == InitPlain /\ [][NextPlain]_vars

\* The selector a structural path gives for element n of the scanned document.
StructuralPath(n) == Join(Path(n, attached), " > ")

\* C13: the selector of every manifest entry follows the priority order
\* id attribute, then name attribute, then aria-label, then structural path.
C13_PriorityOrder ==
    \A h \in 1 .. Len(held) :
        \A i \in 1 .. Len(held[h].copy) :
            \A k \in { Kind(held[h].marked[i]) } :
            \A sel \in { held[h].copy[i].selector } :
                IF Truthy(GetAttribute(k, "id"))
                THEN sel = "#" \o GetAttribute(k, "id")
                ELSE IF Truthy(GetAttribute(k, "name"))
                THEN sel = "[name=\"" \o GetAttribute(k, "name") \o "\"]"
                ELSE IF Truthy(GetAttribute(k, "ariaLabel"))
                THEN sel = "[aria-label=\"" \o GetAttribute(k, "ariaLabel") \o "\"]"
                ELSE sel = StructuralPath(held[h].marked[i])

\* ------------------------------------------- selectors as a browser reads them
Letters ==
    { "a", "b", "c", "d", "e", "f", "g", "h", "i", "j", "k", "l", "m",
      "n", "o", "p", "q", "r", "s", "t", "u", "v", "w", "x", "y", "z",
      "A", "B", "C", "D", "E", "F", "G", "H", "I", "J", "K", "L", "M",
      "N", "O", "P", "Q", "R", "S", "T", "U", "V", "W", "X", "Y", "Z" }
Digits == { "0", "1", "2", "3", "4", "5", "6", "7", "8", "9" }
NameStart == Letters \cup { "_" }
NameChars == NameStart \cup Digits \cup { "-" }

\* The i-th character of s, "" outside the string.
Char(s, i) == IF i >= 1 /\ i <= Len(s) THEN SubSeq(s, i, i) ELSE ""

StartsWith(s, i, p) ==
    i >= 1 /\ i + Len(p) - 1 <= Len(s) /\ SubSeq(s, i, i + Len(p) - 1) = p

EndsWith(s, p) == StartsWith(s, Len(s) - Len(p) + 1, p)

Contains(s, p) == \E i \in 1 .. Len(s) : StartsWith(s, i, p)

RECURSIVE Run(_, _, _)
\* The index after the longest run of characters of set cs that starts at i.
Run(s, i, cs) == IF Char(s, i) \in cs THEN Run(s, i + 1, cs) ELSE i

RECURSIVE Find(_, _, _)
\* The first index >= i where p occurs in s, 0 when there is none.
Find(s, i, p) ==
    IF i > Len(s) THEN 0
    ELSE IF StartsWith(s, i, p) THEN i ELSE Find(s, i + 1, p)

RECURSIVE Split(_, _)
\* The pieces of s between the occurrences of sep.
Split(s, sep) ==
    LET at == Find(s, 1, sep)
    IN IF at = 0 THEN << s >>
       ELSE << SubSeq(s, 1, at - 1) >>
            \o Split(SubSeq(s, at + Len(sep), Len(s)), sep)

RECURSIVE Number(_)
\* The value of a string of decimal digits.
Number(s) ==
    IF s = "" THEN 0
    ELSE 10 * Number(SubSeq(s, 1, Len(s) - 1))
         + (CHOOSE d \in 0 .. 9 : ToString(d) = Char(s, Len(s)))

\* An identifier starts with a letter or _, or with - followed by one.
StartsIdent(s, i) ==
    \/ Char(s, i) \in NameStart
    \/ Char(s, i) = "-" /\ Char(s, i + 1) \in NameStart \cup { "-" }

NthPrefix == ":nth-of-type("

\* A compound selector: type, ids, classes, :nth-of-type arguments and
\* attribute-equality tests; ok is FALSE when the text is not a selector.
AnyElement ==
    [ok |-> TRUE, tag |-> "", ids |-> {}, classes |-> {}, nth |-> {}, attrs |-> {}]

RECURSIVE ParseSimple(_, _, _)
\* The simple selectors of s from index i on, added to compound c.
ParseSimple(s, i, c) ==
    IF i > Len(s) THEN c
    ELSE IF Char(s, i) = "#" /\ StartsIdent(s, i + 1)
    THEN LET j == Run(s, i + 1, NameChars)
         IN ParseSimple(s, j, [c EXCEPT !.ids = @ \cup { SubSeq(s, i + 1, j - 1) }])
    ELSE IF Char(s, i) = "." /\ StartsIdent(s, i + 1)
    THEN LET j == Run(s, i + 1, NameChars)
         IN ParseSimple(s, j, [c EXCEPT !.classes = @ \cup { SubSeq(s, i + 1, j - 1) }])
    ELSE IF StartsWith(s, i, NthPrefix)
    THEN LET a == i + Len(NthPrefix)
             j == Run(s, a, Digits)
         IN IF j > a /\ Char(s, j) = ")"
            THEN ParseSimple(s, j + 1,
                             [c EXCEPT !.nth = @ \cup { Number(SubSeq(s, a, j - 1)) }])
            ELSE [c EXCEPT !.ok = FALSE]
    ELSE IF Char(s, i) = "[" /\ StartsIdent(s, i + 1)
    THEN LET j == Run(s, i + 1, NameChars)
             q == Find(s, j + 2, "\"")
         IN IF StartsWith(s, j, "=\"") /\ q > 0 /\ Char(s, q + 1) = "]"
            THEN ParseSimple(s, q + 2,
                             [c EXCEPT !.attrs = @ \cup
                                { << SubSeq(s, i + 1, j - 1), SubSeq(s, j + 2, q - 1) >> }])
            ELSE [c EXCEPT !.ok = FALSE]
    ELSE [c EXCEPT !.ok = FALSE]

ParseCompound(s) ==
    IF s = "" THEN [AnyElement EXCEPT !.ok = FALSE]
    ELSE IF StartsIdent(s, 1)
    THEN LET j == Run(s, 1, NameChars)
         IN ParseSimple(s, j, [AnyElement EXCEPT !.tag = SubSeq(s, 1, j - 1)])
    ELSE ParseSimple(s, 1, AnyElement)

\* Compound selectors joined by the child combinator.
ParseSelector(s) ==
    LET parts == Split(s, " > ")
    IN [i \in 1 .. Len(parts) |-> ParseCompound(parts[i])]

ValidSelector(s) ==
    \A cs \in { ParseSelector(s) } : \A i \in 1 .. Len(cs) : cs[i].ok

\* The attribute a selector names, as the element records it.
AttrField(a) == IF a = "aria-label" THEN "ariaLabel" ELSE a

MatchesCompound(c, n, att) ==
    LET k == Kind(n)
    IN /\ c.tag # "" => ToLowerCase(k.tagName) = c.tag
       /\ \A id \in c.ids : GetAttribute(k, "id") = id
       /\ \A cl \in c.classes : HasClass(k, cl)
       /\ \A m \in c.nth : NthOfType(n, att) = m
       /\ \A a \in c.attrs :
             /\ AttrField(a[1]) \in DOMAIN k.attrs
             /\ GetAttribute(k, AttrField(a[1])) = a[2]

RECURSIVE MatchesChain(_, _, _)
\* The last compound matches n, the one before it n's parent, and so on.
MatchesChain(cs, n, att) ==
    /\ n \in att
    /\ MatchesCompound(cs[Len(cs)], n, att)
    /\ Len(cs) > 1 => MatchesChain(SubSeq(cs, 1, Len(cs) - 1), parent[n], att)

\* document.querySelectorAll(s) over the page elements of att holds n. The
\* badge <div>s are the last children of <body>, so they precede no page
\* element and leave every :nth-of-type position as it is.
Selects(s, n, att) == ValidSelector(s) /\ MatchesChain(ParseSelector(s), n, att)

\* ------------------------------------------------- claims on the selectors
RECURSIVE Ancestor(_, _)
\* The element d levels above n.
Ancestor(n, d) == IF d = 0 THEN n ELSE Ancestor(parent[n], d - 1)

\* The elements of n's parent that share n's tag name, n included.
SameTagSiblings(n) ==
    { m \in ChildSet(parent[n], attached) : Kind(m).tagName = Kind(n).tagName }

\* The :nth-of-type qualifier for position k.
Qualifier(k) == NthPrefix \o ToString(k) \o ")"

\* The levels of a selector, outermost first.
Levels(sel) == Split(sel, " > ")

\* The selector is a structural path: its last level starts with a tag name.
IsPath(sel) == \A ls \in { Levels(sel) } : Char(ls[Len(ls)], 1) \in Letters

\* The element that level j of the path recorded for n describes.
LevelNode(sel, j, n) == Ancestor(n, Len(Levels(sel)) - j)

\* C14 as stated: at every level of a structural path, a node with more than
\* one same-tag sibling carries :nth-of-type(k), the first sibling included.
C14_QualifiedWhenSeveral ==
    \A h \in 1 .. Len(held) :
        \A i \in 1 .. Len(held[h].copy) :
            \A sel \in { held[h].copy[i].selector } :
            \A ls \in { Levels(sel) } :
                IsPath(sel) =>
                    \A j \in 1 .. Len(ls) :
                        \A m \in { LevelNode(sel, j, held[h].marked[i]) } :
                            (Char(ls[j], 1) # "#"
                               /\ Cardinality(SameTagSiblings(m)) > 1)
                            => EndsWith(ls[j], Qualifier(NthOfType(m, attached)))

\* C14 amended: at every level of a structural path the fragment carries
\* :nth-of-type(k), k the node's 1-based position among its same-tag
\* siblings, exactly when a same-tag sibling precedes the node (k > 1).
C14_QualifiedWhenPreceded ==
    \A h \in 1 .. Len(held) :
        \A i \in 1 .. Len(held[h].copy) :
            \A sel \in { held[h].copy[i].selector } :
            \A ls \in { Levels(sel) } :
                IsPath(sel) =>
                    \A j \in 1 .. Len(ls) :
                        \A m \in { LevelNode(sel, j, held[h].marked[i]) } :
                            Char(ls[j], 1) # "#" =>
                                IF NthOfType(m, attached) > 1
                                THEN EndsWith(ls[j], Qualifier(NthOfType(m, attached)))
                                ELSE ~Contains(ls[j], NthPrefix)

C14_Witness ==
    /\ Returned
    /\ \E i, j \in 1 .. Len(Last.copy) :
          /\ IsPath(Last.copy[i].selector)
          /\ IsPath(Last.copy[j].selector)
          /\ Last.marked[j] \in SameTagSiblings(Last.marked[i])
          /\ NthOfType(Last.marked[i], attached) = 1
          /\ NthOfType(Last.marked[j], attached) = 2
          /\ ~Contains(Last.copy[i].selector, NthPrefix)
          /\ EndsWith(Last.copy[j].selector, Qualifier(2))

\* No id, name or aria-label.
Anonymous(k) ==
    /\ ~Truthy(GetAttribute(k, "id"))
    /\ ~Truthy(GetAttribute(k, "name"))
    /\ ~Truthy(GetAttribute(k, "ariaLabel"))

\* Entries i and j of a manifest are for the two buttons of one parent,
\* alike in class list and anonymous, i's before j's.
TwoAlikeButtons(e, i, j) ==
    LET a == e.marked[i]
        b == e.marked[j]
    IN /\ a < b
       /\ parent[a] = parent[b]
       /\ Kind(a).tagName = "BUTTON"
       /\ SameTagSiblings(a) = { a, b }
       /\ Kind(a).classList = Kind(b).classList
       /\ Anonymous(Kind(a))
       /\ Anonymous(Kind(b))

\* C15: of two sibling buttons alike in tag and class list, with no id, name
\* or aria-label, the first gets a structural path whose own fragment has no
\* :nth-of-type qualifier and the second gets that same path followed by
\* :nth-of-type(2).
C15_TwoButtons ==
    \A h \in 1 .. Len(held) :
        \A i, j \in 1 .. Len(held[h].copy) :
            TwoAlikeButtons(held[h], i, j) =>
                \A first \in { held[h].copy[i].selector } :
                \A ls \in { Levels(first) } :
                    /\ IsPath(first)
                    /\ ~Contains(ls[Len(ls)], NthPrefix)
                    /\ held[h].copy[j].selector = first \o Qualifier(2)

C15_Witness ==
    /\ Returned
    /\ \E i, j \in 1 .. Len(Last.copy) :
          /\ TwoAlikeButtons(Last, i, j)
          /\ Len(Kind(Last.marked[i]).classList) = 2
          /\ Last.copy[j].selector = Last.copy[i].selector \o ":nth-of-type(2)"

\* C16: every selector inject() recorded is a valid selector that, read
\* against the document of that scan, matches the element it was computed for.
C16_SelectorMatches ==
    \A h \in 1 .. Len(held) :
        \A i \in 1 .. Len(held[h].copy) :
            Selects(held[h].copy[i].selector, held[h].marked[i], attached)

\* ---------------------------------------------------- claims on the labels
\* C17: no manifest entry's label is longer than 100 characters, whichever
\* source supplied it (visible text, value, placeholder or aria-label).
C17_LabelBounded ==
    \A h \in 1 .. Len(held) :
        \A i \in 1 .. Len(held[h].copy) :
            Len(held[h].copy[i].text) <= MaxLabel

\* ------------------------------------------------ claims on the candidates
\* The integer a tabindex attribute states.
TabIndexValue(t) ==
    IF Char(t, 1) = "-" THEN 0 - Number(SubSeq(t, 2, Len(t))) ELSE Number(t)

\* The interaction predicates with the tab-index one read as "non-negative".
NonNegativeTabIndex(k) ==
    HasAttribute(k, "tabindex") /\ TabIndexValue(GetAttribute(k, "tabindex")) >= 0

ClaimedInteractive(k) ==
    \/ \E i \in SelectorIndexes \ { 12 } : MatchesSelector(k, i)
    \/ NonNegativeTabIndex(k)

\* C18: the elements a scan takes as candidates are exactly those matching
\* an interaction predicate, an explicit tab index counting only when it is
\* non-negative. (On these pages every candidate passes the filter, so the
\* marked elements are the candidates.)
C18_NonNegativeTabIndex ==
    \A h \in 1 .. Len(held) :
        MarkedSet(held[h]) = { n \in attached : ClaimedInteractive(Kind(n)) }

\* ------------------------------------------- documents with or without a body
\* Page scripts may have removed <body> (document.body is then null) and may
\* have put a click handler on the document element.
InitDoc ==
    /\ parent \in Trees
    /\ \E f \in [PageNodes -> PlainViewKinds] :
       \E root \in { HtmlEl, HtmlOnClick } :
          kindOf = [n \in Nodes |->
                      IF n = HTML THEN KindIndex(root)
                      ELSE IF n = BODY THEN KindIndex(BodyEl) ELSE f[n]]
    /\ attached \in { Nodes, { HTML } }
    /\ scroll = [x |-> 0, y |-> 0]
    /\ badgeNodes = <<>>
    /\ heap = [r \in Refs |-> <<>>]
    /\ held = <<>>
    /\ lastOp = "none"
    /\ args = NULL
    /\ ret = NULL
    /\ frame = NULL

NextDoc == FirstInject

SpecDoc == InitDoc /\ [][NextDoc]_vars

\* C19: no call of inject() ends with an exception reaching its caller.
C19_NoException == lastOp # "inject threw"

\* -------------------------------------------------- inject(), step by step
\* Kinds for the walks: a button too flat to list, a plain container, two
\* buttons in view, a named input and a container with an id.
WalkKinds == { 4, 10, 14, 15, 17, 22 }

\* current.previousElementSibling, 0 for null.
PreviousElementSibling(n, att) ==
    LET before == { m \in ChildSet(parent[n], att) : m < n }
    IN IF before = {} THEN 0
       ELSE CHOOSE m \in before : \A o \in before : o <= m

\* The fragment built on lines 59-79 once the sibling walk counted nth.
FragmentOf(k, nth) ==
    ToLowerCase(k.tagName)
    \o (IF Len(k.classList) > 0 THEN "." \o Join(k.classList, ".") ELSE "")
    \o (IF nth > 1 THEN ":nth-of-type(" \o ToString(nth) \o ")" ELSE "")

ReturnEndsLoop(f) == [f EXCEPT !.idx = Len(f.elements) + 1, !.pc = "forEach"]

\* An early `return` from the callback: forEach goes on to the next element.
ReturnToForEach(f) == [f EXCEPT !.idx = @ + 1, !.pc = "forEach"]

\* badges.push({... selector ...}); badgeId++ and the end of the callback.
Push(f, sel, att, sc) ==
    LET n == f.elements[f.idx]
        rect == GetBoundingClientRect(Kind(n), sc)
        entry == [Entry(n, f.badgeId, rect, att,
                        Viewport.innerWidth, Viewport.innerHeight)
                    EXCEPT !.selector = sel]
    IN [f EXCEPT !.badges = Append(@, entry),
                 !.nodes = Append(@, CreateBadge(f.badgeId, rect, sc)),
                 !.marked = Append(@, n),
                 !.badgeId = @ + 1,
                 !.idx = @ + 1,
                 !.pc = "forEach"]

InitWalk ==
    /\ parent \in Trees
    /\ \E f \in [PageNodes -> WalkKinds] :
          kindOf = [n \in Nodes |->
                      IF n = HTML THEN KindIndex(HtmlEl)
                      ELSE IF n = BODY THEN KindIndex(BodyEl) ELSE f[n]]
    /\ attached = Nodes
    /\ scroll = [x |-> 0, y |-> 0]
    /\ badgeNodes = <<>>
    /\ heap = [r \in Refs |-> <<>>]
    /\ held = <<>>
    /\ lastOp = "none"
    /\ args = NULL
    /\ ret = NULL
    /\ frame = [pc |-> "called", elements |-> <<>>, idx |-> 0, visited |-> <<>>,
                badges |-> <<>>, nodes |-> <<>>, marked |-> <<>>, badgeId |-> 0,
                current |-> 0, sibling |-> 0, nth |-> 0, path |-> <<>>]

\* Lines 4-22: stale badges go, the candidates are collected.
Enter ==
    /\ frame.pc = "called"
    /\ \E att \in { RemoveAll(BadgeClassElements(attached), attached) } :
          /\ attached' = att
          /\ frame' = [frame EXCEPT !.pc = "forEach",
                                    !.elements = QuerySelectorAll(att),
                                    !.idx = 1,
                                    !.nodes = RemoveBadges(badgeNodes),
                                    !.badgeId = InitialBadgeId]
    /\ UNCHANGED <<parent, kindOf, scroll, badgeNodes, heap, held, lastOp,
                   args, ret>>

\* Lines 87-123: the callback up to the call of getUniqueSelector, and
\* lines 53-58 of that call.
Callback ==
    /\ frame.pc = "forEach"
    /\ frame.idx <= Len(frame.elements)
    /\ \E n \in { frame.elements[frame.idx] } :
       \E f \in { [frame EXCEPT !.visited = Append(@, n)] } :
       \E k \in { Kind(n) } :
       \E rect \in { GetBoundingClientRect(k, scroll) } :
          frame' =
            IF \/ TooSmall(rect)
               \/ Hidden(GetComputedStyle(k))
               \/ OffScreen(rect, Viewport.innerWidth, Viewport.innerHeight)
            THEN ReturnToForEach(f)
            ELSE IF BODY \notin attached THEN [f EXCEPT !.pc = "thrown"]
            ELSE IF Truthy(IdProp(k))
            THEN Push(f, "#" \o IdProp(k), attached, scroll)
            ELSE IF Truthy(NameProp(k))
            THEN Push(f, "[name=\"" \o NameProp(k) \o "\"]", attached, scroll)
            ELSE IF Truthy(GetAttribute(k, "ariaLabel"))
            THEN Push(f, "[aria-label=\"" \o GetAttribute(k, "ariaLabel") \o "\"]",
                      attached, scroll)
            ELSE [f EXCEPT !.pc = "while", !.current = n, !.path = <<>>]
    /\ UNCHANGED <<pageVars, args, ret>>

\* Lines 58-73: the test of the ancestor loop and the body up to the
\* sibling walk; line 83 when the loop ends.
AncestorStep ==
    /\ frame.pc = "while"
    /\ frame' =
         IF frame.current \notin Nodes
         THEN Push(frame, Join(frame.path, " > "), attached, scroll)
         ELSE IF Truthy(IdProp(Kind(frame.current)))
         THEN Push(frame,
                   Join(<< "#" \o IdProp(Kind(frame.current)) >> \o frame.path, " > "),
                   attached, scroll)
         ELSE [frame EXCEPT !.pc = "siblings", !.sibling = frame.current, !.nth = 1]
    /\ UNCHANGED <<pageVars, args, ret>>

\* Lines 76-81: one turn of the sibling loop; when it ends, the fragment is
\* put in front of the path and the walk moves to the parent.
SiblingStep ==
    /\ frame.pc = "siblings"
    /\ \E prev \in { PreviousElementSibling(frame.sibling, attached) } :
          frame' =
            IF prev # 0
            THEN [frame EXCEPT
                    !.sibling = prev,
                    !.nth = IF Kind(prev).tagName = Kind(frame.current).tagName
                            THEN @ + 1 ELSE @]
            ELSE [frame EXCEPT
                    !.path = << FragmentOf(Kind(frame.current), frame.nth) >> \o @,
                    !.current = parent[frame.current],
                    !.pc = "while"]
    /\ UNCHANGED <<pageVars, args, ret>>

\* Line 140: return badges.
Return ==
    /\ frame.pc = "forEach"
    /\ frame.idx > Len(frame.elements)
    /\ frame' = [frame EXCEPT !.pc = "returned"]
    /\ badgeNodes' = frame.nodes
    /\ \E ref \in { Alloc(LiveRefs(Retained(held))) } :
          /\ heap' = [heap EXCEPT ![ref] = frame.badges]
          /\ held' = Keep(held, [ref |-> ref, copy |-> frame.badges,
                                 marked |-> frame.marked, at |-> scroll])
    /\ lastOp' = "inject"
    /\ UNCHANGED <<parent, kindOf, attached, scroll, args, ret>>

NextWalk == Enter \/ Callback \/ AncestorStep \/ SiblingStep \/ Return

\* The script runs to completion once called: no step waits for anything.
SpecWalk == InitWalk /\ [][NextWalk]_vars /\ WF_vars(NextWalk)

\* The call returned, the callback having run once for each candidate in
\* order, and the caller holds the manifest of the whole candidate set.
Completed ==
    IF frame.pc = "returned"
    THEN /\ frame.visited = QuerySelectorAll(attached)
         /\ Last.copy = Scan(attached, <<>>, scroll).badges
    ELSE FALSE

\* C20: every call of inject() returns: each ancestor walk and each sibling
\* walk ends, the callback runs once for each candidate, and only then is the
\* manifest handed back.
C20_Terminates == <>Completed

C20_Witness ==
    /\ frame.pc = "returned"
    /\ Len(frame.visited) > Len(Last.copy)
    /\ \E i \in 1 .. Len(Last.copy) :
          /\ Len(Levels(Last.copy[i].selector)) = 3
          /\ EndsWith(Last.copy[i].selector, Qualifier(2))

\* ------------------------------------------ claims on the structural path
\* The number of levels from n up to its nearest proper ancestor that has an
\* id, 0 when no ancestor has one.
NearestIdDistance(n) ==
    LET ds == { d \in 1 .. Depth(n) - 1 : Truthy(GetAttribute(Kind(Ancestor(n, d)), "id")) }
    IN IF ds = {} THEN 0 ELSE CHOOSE d \in ds : \A e \in ds : d <= e

\* C21: a structural path stops at the nearest ancestor with an id: its first
\* level is '#<id>' of that ancestor, one level follows for each node below
\* it down to the element, and no other level is an id; with no such
\* ancestor the path has one level per node from the root element <html>.
C21_StopsAtNearestId ==
    \A h \in 1 .. Len(held) :
        \A i \in 1 .. Len(held[h].copy) :
            \A sel \in { held[h].copy[i].selector } :
            \A ls \in { Levels(sel) } :
            \A d \in { NearestIdDistance(held[h].marked[i]) } :
                IsPath(sel) =>
                    /\ \A j \in 2 .. Len(ls) : Char(ls[j], 1) # "#"
                    /\ IF d > 0
                       THEN /\ Len(ls) = d + 1
                            /\ ls[1] = "#" \o GetAttribute(
                                   Kind(Ancestor(held[h].marked[i], d)), "id")
                       ELSE /\ Len(ls) = Depth(held[h].marked[i])
                            /\ ls[1] = "html"

C21_Witness ==
    /\ Returned
    /\ \E i \in 1 .. Len(Last.copy) :
          /\ NearestIdDistance(Last.marked[i]) = 1
          /\ Depth(Last.marked[i]) = 4
          /\ Last.copy[i].selector = "#app > button.btn.primary"

\* The number of levels the path of n has.
LevelCount(n) ==
    IF NearestIdDistance(n) > 0 THEN NearestIdDistance(n) + 1 ELSE Depth(n)

\* Level j of the path recorded for n describes the node at that height:
\* it is that node's id, or starts with that node's tag name.
DescribesLevel(sel, j, n) ==
    \A m \in { LevelNode(sel, j, n) } :
    \A l \in { Levels(sel)[j] } :
        \/ l = "#" \o IdProp(Kind(m))
        \/ \E t \in { ToLowerCase(Kind(m).tagName) } :
              /\ StartsWith(l, 1, t)
              /\ Char(l, Len(t) + 1) \in { "", ".", ":" }

\* C22 as stated: the fragments run root-to-leaf and are separated by the
\* descendant combinator, a single space.
C22_JoinedByDescendant ==
    \A h \in 1 .. Len(held) :
        \A i \in 1 .. Len(held[h].copy) :
            \A sel \in { held[h].copy[i].selector } :
                IsPath(sel) =>
                    /\ Len(Split(sel, " ")) = LevelCount(held[h].marked[i])
                    /\ ~Contains(sel, ">")

\* C22 amended: the fragments run root-to-leaf, the element's own fragment
\* last, and are separated by the child combinator ' > '.
C22_JoinedByChild ==
    \A h \in 1 .. Len(held) :
        \A i \in 1 .. Len(held[h].copy) :
            \A sel \in { held[h].copy[i].selector } :
            \A ls \in { Levels(sel) } :
                IsPath(sel) =>
                    /\ Len(ls) = LevelCount(held[h].marked[i])
                    /\ \A j \in 1 .. Len(ls) :
                          /\ ~Contains(ls[j], " ")
                          /\ DescribesLevel(sel, j, held[h].marked[i])

C22_Witness ==
    /\ Returned
    /\ \E i \in 1 .. Len(Last.copy) :
          /\ Last.copy[i].selector = "html > body > div.row > button.btn.primary"
          /\ Depth(Last.marked[i]) = 4

\* The elements of the scanned document that selector s matches.
Matched(s) == { m \in attached : Selects(s, m, attached) }

UnusualKinds == (KindIndex(HtmlOnClick) + 1) .. Len(KindTable)

InitMarkup ==
    /\ parent \in Trees
    /\ \E f \in [PageNodes -> PlainViewKinds \cup UnusualKinds] :
          kindOf = [n \in Nodes |->
                      IF n = HTML THEN KindIndex(HtmlEl)
                      ELSE IF n = BODY THEN KindIndex(BodyEl) ELSE f[n]]
    /\ attached = Nodes
    /\ scroll = [x |-> 0, y |-> 0]
    /\ badgeNodes = <<>>
    /\ heap = [r \in Refs |-> <<>>]
    /\ held = <<>>
    /\ lastOp = "none"
    /\ args = NULL
    /\ ret = NULL
    /\ frame = NULL

NextMarkup == FirstInject

SpecMarkup == InitMarkup /\ [][NextMarkup]_vars

RECURSIVE AlikeUpwards(_, _)
\* a and b agree in tag, class list and same-tag position, and so do their
\* ancestors, up to an ancestor with an id (the same id) or past the root.
AlikeUpwards(a, b) ==
    IF a \notin Nodes \/ b \notin Nodes THEN a \notin Nodes /\ b \notin Nodes
    ELSE IF Truthy(IdProp(Kind(a))) \/ Truthy(IdProp(Kind(b)))
    THEN IdProp(Kind(a)) = IdProp(Kind(b))
    ELSE /\ Kind(a).tagName = Kind(b).tagName
         /\ Kind(a).classList = Kind(b).classList
         /\ NthOfType(a, attached) = NthOfType(b, attached)
         /\ AlikeUpwards(parent[a], parent[b])

\* The selector of element n is its structural path.
TakesPath(n) ==
    \A k \in { Kind(n) } :
        /\ ~Truthy(IdProp(k))
        /\ ~Truthy(NameProp(k))
        /\ ~Truthy(GetAttribute(k, "ariaLabel"))

\* C24: two distinct elements that take the structural path get the same
\* selector only if they are alike level by level; two distinct children of
\* one parent never get the same one.
C24_SameStringOnlyIfAlike ==
    \A h \in 1 .. Len(held) :
        \A i, j \in 1 .. Len(held[h].copy) :
            \A a \in { held[h].marked[i] } : \A b \in { held[h].marked[j] } :
                ( /\ i # j
                  /\ TakesPath(a)
                  /\ TakesPath(b)
                  /\ held[h].copy[i].selector = held[h].copy[j].selector )
                => /\ AlikeUpwards(a, b)
                   /\ parent[a] # parent[b]

\* ------------------------------------------------ claims on the boundaries
\* C25: a box whose center lies exactly at 15% or 85% of the viewport height
\* is in the middle vertical zone, and one whose center lies exactly at 20% or
\* 80% of the viewport width is in the center horizontal zone.
C25_BoundariesStrict ==
    ret # NULL =>
        \A cx2 \in { 2 * args.x + args.width } :
        \A cy2 \in { 2 * args.y + args.height } :
            /\ (100 * cy2 = 2 * 15 * args.vh \/ 100 * cy2 = 2 * 85 * args.vh)
                  => ret \in { "left-sidebar", "right-sidebar", "main-content" }
            /\ ( /\ 100 * cx2 = 2 * 20 * args.vw \/ 100 * cx2 = 2 * 80 * args.vw
                 /\ 100 * cy2 >= 2 * 15 * args.vh )
                  => ret \in { "main-content", "bottom-footer" }
            /\ ( /\ 100 * cx2 = 2 * 20 * args.vw \/ 100 * cx2 = 2 * 80 * args.vw
                 /\ 100 * cy2 < 2 * 15 * args.vh )
                  => ret = "top-header"

C25_Witness ==
    /\ ret = "main-content"
    /\ 100 * (2 * args.y + args.height) = 2 * 85 * args.vh
    /\ 100 * (2 * args.x + args.width) = 2 * 80 * args.vw

\* ------------------------------------------------------ the live dashboard
\* The mission page of the frontend (app/page.tsx) and its client of the
\* execution service (lib/api.ts).  The component's state and refs are the
\* record frame; the requests in flight and the open event sources are the
\* record args.  The document of the scanner plays no part here.

\* Steps of the largest plan the analysis returns.
MaxSteps == 2
\* Executions the operator starts in one behaviour.
MaxRuns == 2

BlankDocument ==
    /\ parent = [n \in Nodes |-> IF n = HTML THEN 0 ELSE IF n = BODY THEN HTML ELSE BODY]
    /\ kindOf = [n \in Nodes |->
                   IF n = HTML THEN KindIndex(HtmlEl) ELSE KindIndex(BodyEl)]
    /\ attached = {HTML, BODY}
    /\ scroll = [x |-> 0, y |-> 0]
    /\ badgeNodes = <<>>
    /\ heap = [r \in Refs |-> <<>>]
    /\ held = <<>>

documentVars == <<parent, kindOf, attached, scroll, badgeNodes, heap, held>>

\* A value that may be null is kept as the set of what it holds.
None == {}
Some(x) == { x }
The(opt) == CHOOSE x \in opt : TRUE

\* useState and useRef of CaseFilePage.
viewMode == frame.viewMode
status == frame.status
actions == frame.actions
logs == frame.logs
currentStep == frame.currentStep
executionPlan == frame.executionPlan
isAnalyzing == frame.isAnalyzing
sseCleanupRef == frame.sseCleanupRef

\* String(n) of a step id and parseInt of the decimal string it gives.
DigitValue(c) ==
    CASE c = "0" -> 0 [] c = "1" -> 1 [] c = "2" -> 2 [] c = "3" -> 3
      [] c = "4" -> 4 [] c = "5" -> 5 [] c = "6" -> 6 [] c = "7" -> 7
      [] c = "8" -> 8 [] c = "9" -> 9

RECURSIVE ParseInt(_)
ParseInt(str) ==
    IF Len(str) = 1 THEN DigitValue(str)
    ELSE 10 * ParseInt(SubSeq(str, 1, Len(str) - 1))
         + DigitValue(SubSeq(str, Len(str), Len(str)))

\* The plans an analysis can answer with: n steps with ids 1 .. n.
ActionStep(i) ==
    [id |-> i, action_type |-> IF i % 2 = 0 THEN "SCROLL" ELSE "CLICK"]

ExecutionPlans ==
    { [steps |-> [i \in 1 .. n |-> ActionStep(i)], source_url |-> u] :
        n \in 0 .. MaxSteps, u \in { NULL, "https://example.com" } }

mapActionStepToAction(step) ==
    [id |-> ToString(step.id),
     index |-> step.id,
     type |-> IF step.action_type = "SCROLL" THEN "WAIT" ELSE step.action_type,
     status |-> "pending"]

\* setLogs((prev) => [...prev, entry]); the log is kept as the set of its
\* entries' type and message (ids and timestamps are left out).
addLog(prev, type, message) == prev \cup { << type, message >> }

RECURSIVE addLogs(_, _)
addLogs(prev, entries) ==
    IF entries = <<>> THEN prev
    ELSE addLogs(addLog(prev, entries[1][1], entries[1][2]), Tail(entries))

\* message.toUpperCase() of the messages the stream carries.
ToUpperCase(m) ==
    CASE m = "Navigating" -> "NAVIGATING"
      [] m = "Step done" -> "STEP DONE"
      [] m = "Execution complete" -> "EXECUTION COMPLETE"
      [] OTHER -> m

\* message.includes(sub)
Includes(m, sub) ==
    \E i \in 1 .. Len(m) :
        i + Len(sub) - 1 <= Len(m) /\ SubSeq(m, i, i + Len(sub) - 1) = sub

\* What the execution stream can carry in a message.
LogEvents ==
    { [type |-> "log", level |-> "info", message |-> "Navigating"],
      [type |-> "log", level |-> "success", message |-> "Step done"],
      [type |-> "log", level |-> "success", message |-> "Execution complete"] }

ActionEvents ==
    { [type |-> "action", step_id |-> k, status |-> st] :
        k \in 1 .. MaxSteps, st \in { "running", "complete", "error" } }

InitDash ==
    /\ BlankDocument
    /\ lastOp = "none"
    /\ frame = [viewMode |-> "setup", status |-> "IDLE", actions |-> <<>>,
                logs |-> {}, currentStep |-> -1, executionPlan |-> None,
                isAnalyzing |-> FALSE, sseCleanupRef |-> None]
    /\ args = [analysis |-> "none", \* an analyzeVideo / analyzeUrl request in flight
               pending |-> {},      \* execution ids whose startExecution is in flight
               streams |-> {},      \* execution ids whose EventSource is open
               nextId |-> 1,        \* the next crypto.randomUUID()
               aborted |-> {}]      \* history: ids of the runs started before the
                                    \* last stopMission or resetMission
    /\ ret = NULL

\* handleVideoUpload(file) and handleUrlSubmit(url) up to their await; the
\* input is rendered in the setup view only.
HandleSubmit ==
    /\ viewMode = "setup"
    /\ \E how \in { "video", "url" } :
        /\ frame' = [frame EXCEPT
              !.status = "ANALYZING",
              !.isAnalyzing = TRUE,
              !.viewMode = "execution",
              !.logs = IF how = "video"
                       THEN addLogs(@, << << "SYSTEM", "VIDEO LOADED: demo.mp4" >>,
                                          << "SUBJ", "UPLOADING TO ANALYSIS ENGINE..." >> >>)
                       ELSE addLogs(@, << << "SYSTEM", "URL SUBMITTED: https://example.com/v" >>,
                                          << "SUBJ", "DOWNLOADING AND ANALYZING VIDEO..." >> >>)]
        /\ args' = [args EXCEPT !.analysis = how]
        /\ lastOp' = "handleSubmit"
    /\ UNCHANGED <<documentVars, ret>>

\* The analysis answers with a plan: the try block after the await, then finally.
AnalysisResolves ==
    /\ args.analysis # "none"
    /\ \E plan \in ExecutionPlans :
        frame' = [frame EXCEPT
            !.executionPlan = Some(plan),
            !.actions = [i \in 1 .. Len(plan.steps) |->
                            mapActionStepToAction(plan.steps[i])],
            !.logs = addLogs(@,
                << << "SUBJ", IF args.analysis = "video" THEN "FRAME ANALYSIS COMPLETE"
                                                         ELSE "VIDEO ANALYSIS COMPLETE" >>,
                   << "CONFIRM", ToString(Len(plan.steps)) \o " ACTIONS EXTRACTED" >> >>
                \o (IF plan.source_url # NULL
                    THEN << << "SUBJ", "SOURCE URL DETECTED: " \o plan.source_url >> >>
                    ELSE << >>)),
            !.status = "IDLE",
            !.isAnalyzing = FALSE]
    /\ args' = [args EXCEPT !.analysis = "none"]
    /\ lastOp' = "analysis resolved"
    /\ UNCHANGED <<documentVars, ret>>

\* The analysis fails: the catch block, then finally.
AnalysisRejects ==
    /\ args.analysis # "none"
    /\ frame' = [frame EXCEPT
            !.logs = addLog(@, "ERROR", "ANALYSIS FAILED: Failed"),
            !.status = "ERROR",
            !.isAnalyzing = FALSE]
    /\ args' = [args EXCEPT !.analysis = "none"]
    /\ lastOp' = "analysis rejected"
    /\ UNCHANGED <<documentVars, ret>>

\* runMission up to its await: the request of startExecution leaves.
runMission(f, a) ==
    IF Len(f.actions) = 0 \/ f.executionPlan = None
    THEN << f, a >>
    ELSE << [f EXCEPT !.status = "RUNNING",
                      !.currentStep = 0,
                      !.logs = addLog(@, "SYSTEM", "EXECUTION SEQUENCE INITIATED")],
            [a EXCEPT !.pending = @ \cup { a.nextId },
                      !.nextId = @ + 1] >>

\* The cleanup subscribeToExecution returned: eventSource.close().
Close(a, id) == [a EXCEPT !.streams = @ \ { id }]

stopMission(f, a) ==
    << [f EXCEPT !.sseCleanupRef = None,
                 !.status = "IDLE",
                 !.currentStep = -1,
                 !.logs = addLog(@, "ERROR", "OPERATION ABORTED BY OPERATOR")],
       [(IF f.sseCleanupRef # None THEN Close(a, The(f.sseCleanupRef)) ELSE a)
           EXCEPT !.aborted = 1 .. (a.nextId - 1)] >>

resetMission(f, a) ==
    << [f EXCEPT !.sseCleanupRef = None,
                 !.status = "IDLE",
                 !.actions = <<>>,
                 !.logs = {},
                 !.currentStep = -1,
                 !.viewMode = "setup",
                 !.executionPlan = None],
       [(IF f.sseCleanupRef # None THEN Close(a, The(f.sseCleanupRef)) ELSE a)
           EXCEPT !.aborted = 1 .. (a.nextId - 1)] >>

\* The one action button of the execution view: Stop while RUNNING, Start New
\* Mission when COMPLETE, otherwise Execute Actions (disabled without actions).
Click ==
    /\ viewMode = "execution"
    /\ status \notin { "RUNNING", "COMPLETE" } => Len(actions) > 0 /\ args.nextId <= MaxRuns
    /\ \E after \in { IF status = "RUNNING" THEN stopMission(frame, args)
                      ELSE IF status = "COMPLETE" THEN resetMission(frame, args)
                      ELSE runMission(frame, args) } :
        /\ frame' = after[1]
        /\ args' = after[2]
    /\ lastOp' = IF status = "RUNNING" THEN "stopMission"
                 ELSE IF status = "COMPLETE" THEN "resetMission"
                 ELSE "runMission"
    /\ UNCHANGED <<documentVars, ret>>

\* startExecution answers ok: runMission goes on after its await and subscribes.
StartExecutionResolves ==
    /\ \E id \in args.pending :
        /\ frame' = [frame EXCEPT
              !.logs = addLogs(@, << << "SUBJ", "EXECUTION ID: " \o ToString(id) >>,
                                     << "SUBJ", "CONNECTING TO LIVE STREAM..." >> >>),
              !.sseCleanupRef = Some(id)]
        /\ args' = [args EXCEPT !.pending = @ \ { id },
                                !.streams = @ \cup { id }]
    /\ lastOp' = "subscribed"
    /\ UNCHANGED <<documentVars, ret>>

\* startExecution throws: the catch block of runMission.
StartExecutionRejects ==
    /\ \E id \in args.pending :
        /\ frame' = [frame EXCEPT
              !.logs = addLog(@, "ERROR", "EXECUTION FAILED: Failed to start execution"),
              !.status = "ERROR"]
        /\ args' = [args EXCEPT !.pending = @ \ { id }]
    /\ lastOp' = "startExecution rejected"
    /\ UNCHANGED <<documentVars, ret>>

onLog(f, message, level) ==
    [f EXCEPT !.logs = addLog(@, IF level = "error" THEN "ERROR"
                                 ELSE IF level = "success" THEN "CONFIRM"
                                 ELSE "SUBJ",
                              ToUpperCase(message))]

onComplete(f) ==
    [f EXCEPT !.status = "COMPLETE",
              !.logs = addLogs(@, << << "CONFIRM", "ALL ACTIONS EXECUTED SUCCESSFULLY" >>,
                                     << "SYSTEM", "MISSION COMPLETE" >> >>)]

onActionUpdate(f, stepId, actionStatus) ==
    [f EXCEPT
        !.actions = [i \in 1 .. Len(f.actions) |->
            IF f.actions[i].id = ToString(stepId)
            THEN [f.actions[i] EXCEPT !.status =
                    IF actionStatus = "running" THEN "active"
                    ELSE IF actionStatus = "complete" THEN "complete"
                    ELSE "pending"]
            ELSE IF ParseInt(f.actions[i].id) < stepId /\ actionStatus = "running"
            THEN [f.actions[i] EXCEPT !.status = "complete"]
            ELSE f.actions[i]],
        !.currentStep = stepId - 1]

onError(f, error) ==
    [f EXCEPT !.logs = addLog(@, "ERROR", error),
              !.status = "ERROR"]

\* eventSource.onmessage with a log event.
StreamLog ==
    /\ \E id \in args.streams : \E data \in LogEvents :
        frame' = IF data.level = "success" /\ Includes(data.message, "complete")
                 THEN onComplete(onLog(frame, data.message, data.level))
                 ELSE onLog(frame, data.message, data.level)
    /\ lastOp' = "log event"
    /\ UNCHANGED <<documentVars, args, ret>>

\* eventSource.onmessage with an action event.
StreamAction ==
    /\ \E id \in args.streams : \E data \in ActionEvents :
        /\ frame' = onActionUpdate(frame, data.step_id, data.status)
        /\ ret' = data
    /\ lastOp' = "action event"
    /\ UNCHANGED <<documentVars, args>>

\* eventSource.onerror: the callback, then eventSource.close().
StreamError ==
    /\ \E id \in args.streams :
        /\ frame' = onError(frame, "CONNECTION TO EXECUTION STREAM LOST")
        /\ args' = Close(args, id)
    /\ lastOp' = "stream error"
    /\ UNCHANGED <<documentVars, ret>>

NextDash ==
    \/ HandleSubmit
    \/ AnalysisResolves
    \/ AnalysisRejects
    \/ Click
    \/ StartExecutionResolves
    \/ StartExecutionRejects
    \/ StreamLog
    \/ StreamAction
    \/ StreamError

SpecDash == InitDash /\ [][NextDash]_vars

\* -------------------------------------------------- the simulated mission
\* The mission page that plays a fixed list of actions with timers
\* (unnamed/part_001).  frame is the component's state and refs; args holds
\* the list MOCK_ACTIONS, the pending timers and the effect's cleanup.

\* The delays of the page's setTimeout calls, in milliseconds.
ExtractionDelay == 1000
AnalysisDelay == 2500
LocatedDelay == 500
ProgressDelay == 2000

\* The action types of MOCK_ACTIONS, and of the shorter lists tried in its place.
MOCK_ACTIONS == << "NAVIGATE", "WAIT", "TYPE", "TYPE", "CLICK", "WAIT" >>

MockLists ==
    { MOCK_ACTIONS }
        \cup UNION { [1 .. n -> { "NAVIGATE", "CLICK", "WAIT" }] : n \in 1 .. MaxSteps }

isVideoLoaded == frame.isVideoLoaded
completionHandled == frame.completionHandled

\* A pending setTimeout: its callback, the time left until it is due, and the
\* currentStep its closure holds.
Timer(callback, delay, step) == [callback |-> callback, delay |-> delay, step |-> step]

setTimeout(a, callback, delay, step) ==
    [a EXCEPT !.timers = @ \cup { Timer(callback, delay, step) }]

\* The function the effect returned: clearTimeout of updateTimer and
\* progressTimer (the only pending timers of these two callbacks are the ones
\* the last run of the effect set).
clearTimers(a) ==
    IF a.cleanup
    THEN [a EXCEPT !.timers = { t \in @ : t.callback \notin { "updateTimer", "progressTimer" } },
                   !.cleanup = FALSE]
    ELSE a

\* The effect of step progression: the cleanup of its last run, then its body.
useEffect(f, a) ==
    IF f.status # "RUNNING" \/ f.currentStep < 0
    THEN << [f EXCEPT !.completionHandled = FALSE], clearTimers(a) >>
    ELSE IF f.currentStep >= Len(f.actions)
    THEN IF ~f.completionHandled
         THEN << [f EXCEPT !.completionHandled = TRUE],
                 setTimeout(clearTimers(a), "complete", 0, f.currentStep) >>
         ELSE << f, clearTimers(a) >>
    ELSE << f,
            [setTimeout(setTimeout(clearTimers(a), "updateTimer", 0, f.currentStep),
                        "progressTimer", ProgressDelay, f.currentStep)
                EXCEPT !.cleanup = TRUE] >>

\* The render after a handler or a timer callback: the effect runs again when
\* status, currentStep or the actions array is not the one of the last render.
Commit(before, f, a, newArray) ==
    IF newArray \/ f.status # before.status \/ f.currentStep # before.currentStep
    THEN useEffect(f, a)
    ELSE << f, a >>

initializeActions(a) ==
    [i \in 1 .. Len(a.mock) |->
        [id |-> ToString(i), index |-> i, type |-> a.mock[i], status |-> "pending"]]

\* The callback of a timer: the state it leaves, the timers it sets, and
\* whether it put a new array in actions.
TimerCallback(t, f, a) ==
    CASE t.callback = "extraction" ->
           << [f EXCEPT !.logs = addLogs(@,
                   << << "SUBJ", "FRAME EXTRACTION COMPLETE - 247 FRAMES" >>,
                      << "SUBJ", "SCANNING FOR UI ELEMENTS..." >> >>)],
              a, FALSE >>
      [] t.callback = "analysis" ->
           << [f EXCEPT !.logs = addLogs(@,
                   << << "SUBJ", "LOGIN BUTTON IDENTIFIED" >>,
                      << "SUBJ", "INPUT FIELDS DETECTED [2]" >>,
                      << "CONFIRM", "ANALYSIS COMPLETE - 6 ACTIONS QUEUED" >> >>),
                        !.actions = initializeActions(a),
                        !.status = "IDLE"],
              a, TRUE >>
      [] t.callback = "complete" ->
           << [f EXCEPT !.status = "COMPLETE",
                        !.logs = addLogs(@,
                   << << "CONFIRM", "ALL ACTIONS EXECUTED SUCCESSFULLY" >>,
                      << "SYSTEM", "CASE FILE COMPLETE" >> >>)],
              a, FALSE >>
      [] t.callback = "updateTimer" ->
           << [f EXCEPT
                 !.actions = [idx \in 1 .. Len(f.actions) |->
                     [f.actions[idx] EXCEPT !.status =
                         IF idx - 1 < t.step THEN "complete"
                         ELSE IF idx - 1 = t.step THEN "active"
                         ELSE "pending"]],
                 !.logs = addLog(@, "ACTION", a.mock[t.step + 1])],
              IF a.mock[t.step + 1] \in { "CLICK", "TYPE" }
              THEN setTimeout(a, "located", LocatedDelay, t.step)
              ELSE a,
              TRUE >>
      [] t.callback = "located" ->
           << [f EXCEPT !.logs = addLog(@, "SUBJ", "ELEMENT LOCATED: " \o ToString(t.step + 1))],
              a, FALSE >>
      [] t.callback = "progressTimer" ->
           << [f EXCEPT
                 !.actions = [idx \in 1 .. Len(f.actions) |->
                     [f.actions[idx] EXCEPT !.status =
                         IF idx - 1 <= t.step THEN "complete" ELSE @]],
                 !.logs = addLog(@, "CONFIRM", "STEP " \o ToString(t.step + 1) \o " COMPLETE"),
                 !.currentStep = @ + 1],
              a, TRUE >>

InitSim ==
    /\ BlankDocument
    /\ lastOp = "none"
    /\ frame = [viewMode |-> "upload", status |-> "IDLE", isVideoLoaded |-> FALSE,
                actions |-> <<>>, logs |-> {}, currentStep |-> -1,
                completionHandled |-> FALSE]
    /\ \E mock \in MockLists :
        args = [mock |-> mock,      \* the list MOCK_ACTIONS of this build
                timers |-> {},      \* the pending timers
                cleanup |-> FALSE,  \* the last run of the effect returned a cleanup
                turn |-> 0]         \* parity of the timers fired so far
    /\ ret = NULL

\* handleVideoUpload, bound to the viewer of the upload view.
handleVideoUpload ==
    /\ viewMode = "upload"
    /\ \E after \in { Commit(frame,
                        [frame EXCEPT
                            !.isVideoLoaded = TRUE,
                            !.status = "ANALYZING",
                            !.viewMode = "execution",
                            !.logs = addLogs(@,
                                << << "SYSTEM", "SURVEILLANCE FILM LOADED" >>,
                                   << "SUBJ", "INITIATING FRAME ANALYSIS..." >> >>)],
                        setTimeout(setTimeout(args, "extraction", ExtractionDelay, -1),
                                   "analysis", AnalysisDelay, -1),
                        FALSE) } :
        /\ frame' = after[1]
        /\ args' = after[2]
    /\ lastOp' = "handleVideoUpload"
    /\ UNCHANGED <<documentVars, ret>>

runMissionSimulated(f) ==
    IF Len(f.actions) = 0 THEN f
    ELSE [f EXCEPT !.status = "RUNNING",
                   !.currentStep = 0,
                   !.logs = addLog(@, "SYSTEM", "EXECUTION SEQUENCE INITIATED")]

stopMissionSimulated(f) ==
    [f EXCEPT !.status = "IDLE",
              !.currentStep = -1,
              !.logs = addLog(@, "ERROR", "OPERATION ABORTED BY OPERATOR")]

resetMissionSimulated(f) ==
    [f EXCEPT !.status = "IDLE",
              !.isVideoLoaded = FALSE,
              !.actions = <<>>,
              !.logs = {},
              !.currentStep = -1,
              !.viewMode = "upload"]

\* The action button of the execution view: Stop while RUNNING, New Mission
\* when COMPLETE, otherwise Execute (disabled without actions).
ClickSimulated ==
    /\ viewMode = "execution"
    /\ status \notin { "RUNNING", "COMPLETE" } => Len(actions) > 0
    /\ \E after \in { Commit(frame,
                        IF status = "RUNNING" THEN stopMissionSimulated(frame)
                        ELSE IF status = "COMPLETE" THEN resetMissionSimulated(frame)
                        ELSE runMissionSimulated(frame),
                        args,
                        status = "COMPLETE") } :
        /\ frame' = after[1]
        /\ args' = after[2]
    /\ lastOp' = IF status = "RUNNING" THEN "stopMission"
                 ELSE IF status = "COMPLETE" THEN "resetMission"
                 ELSE "runMission"
    /\ UNCHANGED <<documentVars, ret>>

\* The event loop runs the callback of the timer that is due first; the time
\* until then passes for the others.
FireTimer ==
    /\ \E t \in args.timers :
        /\ \A u \in args.timers : t.delay <= u.delay
        /\ \E ran \in { TimerCallback(t, frame,
                          [args EXCEPT
                              !.timers = { [u EXCEPT !.delay = @ - t.delay] :
                                             u \in args.timers \ { t } },
                              !.turn = 1 - @]) } :
           \E after \in { Commit(frame, ran[1], ran[2], ran[3]) } :
                /\ frame' = after[1]
                /\ args' = after[2]
        /\ lastOp' = t.callback
    /\ UNCHANGED <<documentVars, ret>>

NextSim == handleVideoUpload \/ ClickSimulated \/ FireTimer

\* A timer that is due fires: the event loop does not stop.
SpecSim == InitSim /\ [][NextSim]_vars /\ WF_vars(FireTimer)

\* ------------------------------------------------- claims on the dashboard
\* C26: once stopMission or resetMission has run, no event source opened for
\* a run that was started before it is open (an open event source is what
\* delivers the events that change status, actions and currentStep),
\* whatever the order of the clicks and the answer of startExecution.
C26_NoStreamOutlivesStop == args.streams \cap args.aborted = {}

\* C27: a step that starts with status COMPLETE and is not resetMission ends
\* with status COMPLETE.
C27_CompleteUntilReset ==
    [][(status = "COMPLETE" /\ lastOp' # "resetMission")
          => frame'.status = "COMPLETE"]_vars

\* C28: at most one action is active, and right after an action event that
\* reports step k running every action with a smaller id is complete.
C28_OneActiveStep ==
    /\ Cardinality({ i \in 1 .. Len(actions) : actions[i].status = "active" }) <= 1
    /\ (lastOp = "action event" /\ ret.status = "running")
          => \A i \in 1 .. Len(actions) :
                ParseInt(actions[i].id) < ret.step_id
                    => actions[i].status = "complete"

\* ------------------------------------------- claims on the simulated mission
\* C29: a run that was started and is not stopped leads to status COMPLETE
\* with every action complete.
C29_RunCompletes ==
    (status = "RUNNING")
        ~> \/ lastOp = "stopMission"
           \/ /\ status = "COMPLETE"
              /\ \A i \in 1 .. Len(actions) : actions[i].status = "complete"

====
